---------------------------- MODULE Spec2Model ----------------------------
(***************************************************************************)
(* Model of src/utils/target/multi.rs : parse_multiple_targets.            *)
(*                                                                         *)
(* A Rust &str is modelled as a sequence of characters, each character a   *)
(* one-element TLA+ string.  One character stands for a non-ASCII decimal  *)
(* digit (U+0663, ARABIC-INDIC DIGIT THREE): the regex class \d is         *)
(* Unicode-aware, the integer parser is not.                               *)
(***************************************************************************)
EXTENDS Integers, Sequences, FiniteSets, TLC

VARIABLES
    pc,          \* per thread: position inside parse_multiple_targets
    expression,  \* per thread: the argument of the running call
    caps,        \* per thread: the captures of IPV4_RANGE_PARSER
    nums,        \* per thread: a, b, c, start, stop as parsed u8 values
    port_part,   \* per thread: the local port_part
    cidr_part,   \* per thread: the local cidr_part
    iter,        \* per thread: the RangeInclusive<u8> of the for loop
    range,       \* per thread: the local vector range
    result,      \* per thread: what the call returned (or that it panicked)
    lazy,        \* the Once guarding IPV4_RANGE_PARSER
    compiles     \* how many times Regex::new ran

vars == <<pc, expression, caps, nums, port_part, cidr_part, iter, range,
          result, lazy, compiles>>

-----------------------------------------------------------------------------
(* Bounds of the model.                                                    *)

\* Threads calling the function concurrently (specification SpecConc).
MaxThreads == 2
\* Pieces of a comma separated input.
MaxPieces == 3
\* Shorthand range bounds are drawn from 0..MaxLow and from the values
\* within MaxLow of the top of the u8 range.
MaxLow == 2
\* Host bits of the CIDR blocks that are expanded.
MaxHostBits == 2

-----------------------------------------------------------------------------
(* Characters and strings.                                                 *)

AsciiDigits == <<"0", "1", "2", "3", "4", "5", "6", "7", "8", "9">>
HexDigits == <<"0", "1", "2", "3", "4", "5", "6", "7", "8", "9",
               "a", "b", "c", "d", "e", "f">>
HexUpper == <<"0", "1", "2", "3", "4", "5", "6", "7", "8", "9",
              "A", "B", "C", "D", "E", "F">>
ArabicIndicThree == "U+0663"

Range(f) == {f[i] : i \in DOMAIN f}

IsAsciiDigit(ch) == ch \in Range(AsciiDigits)
\* The regex class \d (Unicode decimal digits).
IsRegexDigit(ch) == IsAsciiDigit(ch) \/ ch = ArabicIndicThree
\* char::is_whitespace, as used by str::trim.
IsWhitespace(ch) == ch \in {" ", "\t"}

DigitVal(ch) == (CHOOSE i \in DOMAIN AsciiDigits : AsciiDigits[i] = ch) - 1

Contains(s, pat) ==
    \E i \in 1..(Len(s) - Len(pat) + 1) : SubSeq(s, i, i + Len(pat) - 1) = pat

EndsWith(s, pat) ==
    /\ Len(s) >= Len(pat)
    /\ SubSeq(s, Len(s) - Len(pat) + 1, Len(s)) = pat

\* Position of the first occurrence of pat in s (0 when there is none).
Find(s, pat) ==
    IF Contains(s, pat)
    THEN CHOOSE i \in 1..(Len(s) - Len(pat) + 1) :
            /\ SubSeq(s, i, i + Len(pat) - 1) = pat
            /\ \A j \in 1..(i - 1) : SubSeq(s, j, j + Len(pat) - 1) # pat
    ELSE 0

\* str::trim
RECURSIVE TrimStart(_)
TrimStart(s) ==
    IF s # <<>> /\ IsWhitespace(Head(s)) THEN TrimStart(Tail(s)) ELSE s

RECURSIVE TrimEnd(_)
TrimEnd(s) ==
    IF s # <<>> /\ IsWhitespace(s[Len(s)])
    THEN TrimEnd(SubSeq(s, 1, Len(s) - 1)) ELSE s

Trim(s) == TrimEnd(TrimStart(s))

\* str::trim_end_matches(']')
RECURSIVE TrimEndMatches(_, _)
TrimEndMatches(s, ch) ==
    IF s # <<>> /\ s[Len(s)] = ch
    THEN TrimEndMatches(SubSeq(s, 1, Len(s) - 1), ch) ELSE s

\* str::split(sep): every piece between separators, empty ones included.
RECURSIVE SplitFrom(_, _, _, _, _)
SplitFrom(s, sep, i, cur, acc) ==
    IF i > Len(s) THEN Append(acc, cur)
    ELSE IF s[i] = sep THEN SplitFrom(s, sep, i + 1, <<>>, Append(acc, cur))
    ELSE SplitFrom(s, sep, i + 1, Append(cur, s[i]), acc)

Split(s, sep) == SplitFrom(s, sep, 1, <<>>, <<>>)

MapTrim(pieces) == [i \in DOMAIN pieces |-> Trim(pieces[i])]

NotEmpty(s) == s # <<>>

\* The same without the filter: empty pieces are kept.
CommaNoFilter(e) == MapTrim(Split(e, ","))

\* Lines 15-19: split(',') . map(trim) . filter(not empty) . collect()
CommaTargets(e) == SelectSeq(MapTrim(Split(e, ",")), NotEmpty)

-----------------------------------------------------------------------------
(* Integers: str::parse::<u8> and the Display of an unsigned integer.      *)

U8Max == 255

NoNum == [ok |-> FALSE, val |-> 0]

\* checked_mul(10) then checked_add(digit): an overflow is an error.
RECURSIVE ParseU8From(_, _, _)
ParseU8From(s, i, acc) ==
    IF i > Len(s) THEN [ok |-> TRUE, val |-> acc]
    ELSE IF ~IsAsciiDigit(s[i]) THEN NoNum
    ELSE IF acc * 10 + DigitVal(s[i]) > U8Max THEN NoNum
    ELSE ParseU8From(s, i + 1, acc * 10 + DigitVal(s[i]))

ParseU8(s) == IF s = <<>> THEN NoNum ELSE ParseU8From(s, 1, 0)

RECURSIVE FmtDec(_)
FmtDec(n) ==
    IF n < 10 THEN <<AsciiDigits[n + 1]>>
    ELSE Append(FmtDec(n \div 10), AsciiDigits[(n % 10) + 1])

-----------------------------------------------------------------------------
(* IPV4_RANGE_PARSER: ^(\d+)\.(\d+)\.(\d+)\.(\d+)-(\d+):?(\d+)?$           *)

NoPort == [some |-> FALSE, str |-> <<>>]
NoCaps == [matched |-> FALSE, g |-> <<>>, port |-> NoPort]

\* The position after the longest run of \d characters that starts at i.
RECURSIVE DigitRunEnd(_, _)
DigitRunEnd(s, i) ==
    IF i <= Len(s) /\ IsRegexDigit(s[i]) THEN DigitRunEnd(s, i + 1) ELSE i

\* (\d+) followed by the literal lit: the group is the whole digit run, for
\* no digit is the literal.  Yields the position after the literal, or 0.
GroupThen(s, i, lit) ==
    LET j == DigitRunEnd(s, i)
    IN  IF j > i /\ j <= Len(s) /\ s[j] = lit THEN j + 1 ELSE 0

AllRegexDigits(s) == \A i \in DOMAIN s : IsRegexDigit(s[i])

\* The ways  :?(\d+)?$  matches the rest of s from position k.
TailMatches(s, k) ==
    {m \in [colon : BOOLEAN, hasPort : BOOLEAN] :
        LET p == IF m.colon THEN k + 1 ELSE k
        IN  /\ m.colon => (k <= Len(s) /\ s[k] = ":")
            /\ IF m.hasPort
               THEN p <= Len(s) /\ AllRegexDigits(SubSeq(s, p, Len(s)))
               ELSE p = Len(s) + 1}

\* The ways  (\d+):?(\d+)?$  matches s from position i: the stop group ends
\* before position k.
StopMatches(s, i) ==
    {m \in [k : (i + 1)..DigitRunEnd(s, i), colon : BOOLEAN, hasPort : BOOLEAN] :
        [colon |-> m.colon, hasPort |-> m.hasPort] \in TailMatches(s, m.k)}

\* Greedy quantifiers: the backtracking order tries the longest stop group
\* first, then the colon taken, then the port group taken.
Priority(m) == (m.k * 4) + (IF m.colon THEN 2 ELSE 0) + (IF m.hasPort THEN 1 ELSE 0)

LazyPreferred(ms) == CHOOSE m \in ms : \A o \in ms : Priority(m) <= Priority(o)

Preferred(ms) == CHOOSE m \in ms : \A o \in ms : Priority(m) >= Priority(o)

\* Regex::captures
Captures(s) ==
    LET p2 == GroupThen(s, 1, ".")
        p3 == IF p2 = 0 THEN 0 ELSE GroupThen(s, p2, ".")
        p4 == IF p3 = 0 THEN 0 ELSE GroupThen(s, p3, ".")
        p5 == IF p4 = 0 THEN 0 ELSE GroupThen(s, p4, "-")
    IN  IF p5 = 0 \/ StopMatches(s, p5) = {} THEN NoCaps
        ELSE LET m == Preferred(StopMatches(s, p5))
                 q == IF m.colon THEN m.k + 1 ELSE m.k
             IN  [matched |-> TRUE,
                  g |-> <<SubSeq(s, 1, p2 - 2), SubSeq(s, p2, p3 - 2),
                          SubSeq(s, p3, p4 - 2), SubSeq(s, p4, p5 - 2),
                          SubSeq(s, p5, m.k - 1)>>,
                  port |-> IF m.hasPort
                           THEN [some |-> TRUE, str |-> SubSeq(s, q, Len(s))]
                           ELSE NoPort]

-----------------------------------------------------------------------------
(* The shorthand range: lines 35-46.                                       *)

\* RangeInclusive<u8>::next
IterNew(start, stop) == [start |-> start, end |-> stop, exhausted |-> FALSE]

IterNone(it) == [some |-> FALSE, val |-> 0, it |-> it]

\* A loop counter that is incremented in 8 bits after every pass.
WrappingNext(it) ==
    IF it.start <= it.end
    THEN [some |-> TRUE, val |-> it.start,
          it |-> [it EXCEPT !.start = (it.start + 1) % (U8Max + 1)]]
    ELSE IterNone(it)

IterNext(it) ==
    IF it.exhausted \/ ~(it.start <= it.end) THEN IterNone(it)
    ELSE IF it.start < it.end
    THEN [some |-> TRUE, val |-> it.start,
          it |-> [it EXCEPT !.start = it.start + 1]]
    ELSE [some |-> TRUE, val |-> it.start,
          it |-> [it EXCEPT !.exhausted = TRUE]]

\* Lines 35-39
RangePortPart(port) == IF port.some THEN <<":">> \o port.str ELSE <<>>

\* Line 43: format!("{}.{}.{}.{}{}", a, b, c, d, port_part)
RangeTarget(a, b, c, d, pp) ==
    FmtDec(a) \o <<".">> \o FmtDec(b) \o <<".">> \o FmtDec(c) \o <<".">>
        \o FmtDec(d) \o pp

\* Lines 41-46, run to completion.
RECURSIVE RangeLoop(_, _, _, _, _, _)
RangeLoop(a, b, c, it, pp, acc) ==
    LET nx == IterNext(it)
    IN  IF nx.some
        THEN RangeLoop(a, b, c, nx.it, pp, Append(acc, RangeTarget(a, b, c, nx.val, pp)))
        ELSE acc

-----------------------------------------------------------------------------
(* The port suffix of a CIDR expression: lines 49-63.                      *)

\* The same with the IPv4 port left as it is after ":[".
PortSplitKeepBracket(e) ==
    IF Contains(e, <<":", "[">>) /\ EndsWith(e, <<"]">>)
    THEN LET i == Find(e, <<":", "[">>)
             cidr == SubSeq(e, 1, i - 1)
             port == SubSeq(e, i + 2, Len(e))
         IN  [cidr |-> cidr,
              port_part |-> IF Contains(cidr, <<":">>)
                            THEN <<":", "[">> \o port
                            ELSE <<":">> \o port]
    ELSE [cidr |-> e, port_part |-> <<>>]

PortSplit(e) ==
    IF Contains(e, <<":", "[">>) /\ EndsWith(e, <<"]">>)
    THEN LET i == Find(e, <<":", "[">>)
             cidr == SubSeq(e, 1, i - 1)
             port == SubSeq(e, i + 2, Len(e))
         IN  [cidr |-> cidr,
              port_part |-> IF Contains(cidr, <<":">>)
                            THEN <<":", "[">> \o port
                            ELSE <<":">> \o TrimEndMatches(port, "]")]
    ELSE [cidr |-> e, port_part |-> <<>>]

-----------------------------------------------------------------------------
(* cidr_utils::cidr::IpCidr, as lines 66-70 use it and as the tests of     *)
(* lines 122-168 pin it down: from_str accepts address/prefix, clears the  *)
(* host bits, and iter yields every address of the block in ascending      *)
(* order.  An address is the sequence of its groups (4 of 8 bits, or 8 of  *)
(* 16 bits).                                                               *)

RECURSIVE Pow2(_)
Pow2(n) == IF n = 0 THEN 1 ELSE 2 * Pow2(n - 1)

Min(x, y) == IF x < y THEN x ELSE y
Max(x, y) == IF x > y THEN x ELSE y

GroupBits(family) == IF family = 4 THEN 8 ELSE 16
GroupCount(family) == IF family = 4 THEN 4 ELSE 8
AddressBits(family) == GroupBits(family) * GroupCount(family)

NoAddr == [ok |-> FALSE, groups |-> <<>>]
NoCidr == [ok |-> FALSE, family |-> 0, groups |-> <<>>, bits |-> 0]

IsHexDigit(ch) == ch \in Range(HexDigits) \cup Range(HexUpper)

HexVal(ch) ==
    (CHOOSE i \in DOMAIN HexDigits : HexDigits[i] = ch \/ HexUpper[i] = ch) - 1

RECURSIVE HexFrom(_, _, _)
HexFrom(s, i, acc) ==
    IF i > Len(s) THEN acc ELSE HexFrom(s, i + 1, acc * 16 + HexVal(s[i]))

IsHexGroup(s) ==
    /\ Len(s) \in 1..4
    /\ \A i \in DOMAIN s : IsHexDigit(s[i])

IsOctet(s) == Len(s) \in 1..3 /\ ParseU8(s).ok

ParseIpv4(s) ==
    LET gs == Split(s, ".")
    IN  IF Len(gs) = 4 /\ \A i \in 1..4 : IsOctet(gs[i])
        THEN [ok |-> TRUE, groups |-> [i \in 1..4 |-> ParseU8(gs[i]).val]]
        ELSE NoAddr

\* The groups of one side of "::" (none for the empty string).
HexGroups(s) == IF s = <<>> THEN <<>> ELSE Split(s, ":")

Zeros(n) == [i \in 1..n |-> 0]

ParseIpv6(s) ==
    LET dc == Find(s, <<":", ":">>)
        left == IF dc = 0 THEN HexGroups(s) ELSE HexGroups(SubSeq(s, 1, dc - 1))
        right == IF dc = 0 THEN <<>> ELSE HexGroups(SubSeq(s, dc + 2, Len(s)))
        given == left \o right
        wellFormed == \A i \in DOMAIN given : IsHexGroup(given[i])
        values == [i \in DOMAIN given |-> HexFrom(given[i], 1, 0)]
    IN  IF ~wellFormed THEN NoAddr
        ELSE IF dc = 0
        THEN IF Len(given) = 8 THEN [ok |-> TRUE, groups |-> values] ELSE NoAddr
        ELSE IF Len(given) <= 7
        THEN [ok |-> TRUE,
              groups |-> SubSeq(values, 1, Len(left)) \o Zeros(8 - Len(given))
                            \o SubSeq(values, Len(left) + 1, Len(given))]
        ELSE NoAddr

\* A prefix length: decimal, at most the address width.
ParsePrefix(s, family) ==
    IF IsOctet(s) /\ ParseU8(s).val <= AddressBits(family)
    THEN [ok |-> TRUE, val |-> ParseU8(s).val]
    ELSE NoNum

\* How many of the bits of group i belong to a prefix of p bits.
KeptBits(i, p, w) == Max(0, Min(w, p - (w * (i - 1))))

Network(groups, p, w) ==
    [i \in DOMAIN groups |->
        groups[i] - (groups[i] % Pow2(w - KeptBits(i, p, w)))]

\* IpCidr::from_str
IpCidrFromStr(s) ==
    LET slash == Find(s, <<"/">>)
        addr == IF slash = 0 THEN s ELSE SubSeq(s, 1, slash - 1)
        v4 == ParseIpv4(addr)
        v6 == ParseIpv6(addr)
        family == IF v4.ok THEN 4 ELSE 6
        groups == IF v4.ok THEN v4.groups ELSE v6.groups
        prefix == IF slash = 0
                  THEN [ok |-> TRUE, val |-> AddressBits(family)]
                  ELSE ParsePrefix(SubSeq(s, slash + 1, Len(s)), family)
    IN  IF (v4.ok \/ v6.ok) /\ prefix.ok
        THEN [ok |-> TRUE, family |-> family,
              groups |-> Network(groups, prefix.val, GroupBits(family)),
              bits |-> prefix.val]
        ELSE NoCidr

\* The address n places after groups, carrying from group i leftwards.
RECURSIVE AddAt(_, _, _, _)
AddAt(groups, i, n, w) ==
    IF n = 0 \/ i = 0 THEN groups
    ELSE AddAt([groups EXCEPT ![i] = (groups[i] + n) % Pow2(w)], i - 1,
               (groups[i] + n) \div Pow2(w), w)

\* IpCidr::iter
CidrIter(cidr) ==
    [k \in 1..Pow2(AddressBits(cidr.family) - cidr.bits) |->
        AddAt(cidr.groups, Len(cidr.groups), k - 1, GroupBits(cidr.family))]

RECURSIVE FmtHex(_)
FmtHex(n) ==
    IF n < 16 THEN <<HexDigits[n + 1]>>
    ELSE Append(FmtHex(n \div 16), HexDigits[(n % 16) + 1])

RECURSIVE Join(_, _)
Join(strs, sep) ==
    IF strs = <<>> THEN <<>>
    ELSE IF Len(strs) = 1 THEN strs[1]
    ELSE strs[1] \o sep \o Join(Tail(strs), sep)

DisplayIpv4(groups) == Join([i \in DOMAIN groups |-> FmtDec(groups[i])], <<".">>)

\* The number of consecutive zero groups from group i on.
RECURSIVE ZeroRun(_, _)
ZeroRun(groups, i) ==
    IF i <= Len(groups) /\ groups[i] = 0 THEN 1 + ZeroRun(groups, i + 1) ELSE 0

\* Display of Ipv6Addr: the first longest run of two or more zero groups is
\* written "::"; an IPv4-mapped address ends in dotted decimal.
DisplayIpv6(groups) ==
    LET hex == [i \in DOMAIN groups |-> FmtHex(groups[i])]
        best == CHOOSE i \in DOMAIN groups :
                    /\ \A j \in DOMAIN groups : ZeroRun(groups, j) <= ZeroRun(groups, i)
                    /\ \A j \in 1..(i - 1) : ZeroRun(groups, j) < ZeroRun(groups, i)
        len == ZeroRun(groups, best)
    IN  IF SubSeq(groups, 1, 6) = <<0, 0, 0, 0, 0, 65535>>
        THEN <<":", ":", "f", "f", "f", "f", ":">>
                \o DisplayIpv4(<<groups[7] \div 256, groups[7] % 256,
                                 groups[8] \div 256, groups[8] % 256>>)
        ELSE IF len > 1
        THEN Join(SubSeq(hex, 1, best - 1), <<":">>) \o <<":", ":">>
                \o Join(SubSeq(hex, best + len, Len(hex)), <<":">>)
        ELSE Join(hex, <<":">>)

DisplayIp(family, groups) ==
    IF family = 4 THEN DisplayIpv4(groups) ELSE DisplayIpv6(groups)

\* The same over the hosts of the block only: without its first and its
\* last address when it has more than two.
CidrHostTargets(cidr, pp) ==
    LET all == CidrIter(cidr)
        hosts == IF Len(all) > 2 THEN SubSeq(all, 2, Len(all) - 1) ELSE all
    IN  [k \in DOMAIN hosts |-> DisplayIp(cidr.family, hosts[k]) \o pp]

\* Lines 67-70: cidr.iter().map(|ip| format!("{}{}", ip, port_part)).collect()
CidrTargets(cidr, pp) ==
    [k \in DOMAIN CidrIter(cidr) |-> DisplayIp(cidr.family, CidrIter(cidr)[k]) \o pp]

-----------------------------------------------------------------------------
(* Result<Vec<String>, Error>, and a call that unwound with a panic.       *)

Pending == [kind |-> "None", list |-> <<>>, msg |-> <<>>]
Ok(list) == [kind |-> "Ok", list |-> list, msg |-> <<>>]
Err(msg) == [kind |-> "Err", list |-> <<>>, msg |-> msg]
Panicked == [kind |-> "Panic", list |-> <<>>, msg |-> <<>>]

\* Lines 29-32
DescendingMsg(e, start, stop) ==
    <<"invalid ip range ">> \o e \o <<", ">> \o FmtDec(start)
        \o <<" is greater than ">> \o FmtDec(stop)

\* Lines 74-77
UnrecognizedMsg(e) ==
    <<"could not parse '">> \o e
        \o <<"' as a comma separated list of targets or as CIDR">>

\* Lines 22-26: the five parse().unwrap() calls.
Octets(c) == [i \in 1..5 |-> ParseU8(c.g[i])]

OctetsOk(c) == \A i \in 1..5 : Octets(c)[i].ok

\* The whole function, as one sequential call computes it.
parse_multiple_targets(e) ==
    IF Contains(e, <<",">>) THEN Ok(CommaTargets(e))
    ELSE IF Captures(e).matched
    THEN LET c == Captures(e)
             n == [i \in 1..5 |-> Octets(c)[i].val]
         IN  IF ~OctetsOk(c) THEN Panicked
             ELSE IF n[5] < n[4] THEN Err(DescendingMsg(e, n[4], n[5]))
             ELSE Ok(RangeLoop(n[1], n[2], n[3], IterNew(n[4], n[5]),
                               RangePortPart(c.port), <<>>))
    ELSE LET ps == PortSplit(e)
             cidr == IpCidrFromStr(ps.cidr)
         IN  IF cidr.ok THEN Ok(CidrTargets(cidr, ps.port_part))
             ELSE Err(UnrecognizedMsg(e))

-----------------------------------------------------------------------------
(* Inputs.                                                                 *)

Threads == 1..MaxThreads

Lows == 0..MaxLow
Highs == (U8Max - MaxLow)..(U8Max + 1)

\* Texts of the start and stop groups: small and large octets, the first
\* value past the u8 range, a leading zero, and a non-ASCII digit.
BoundTexts ==
    {FmtDec(n) : n \in Lows \cup Highs}
        \cup {<<"0", "1">>, <<"3", "0", "0">>, <<ArabicIndicThree>>}

SmallTexts == {FmtDec(n) : n \in Lows} \cup {<<"1", "0">>}

Net192 == <<"1", "9", "2", ".", "1", "6", "8", ".", "1", ".">>

LeadingTexts ==
    {Net192,
     <<"1", "0", ".", "0", "0", ".", "7", ".">>,
     <<"2", "5", "6", ".", "1", ".", "1", ".">>,
     <<"1", ".", "9", "9", "9", ".", "1", ".">>,
     <<"1", ".", "1", ".", ArabicIndicThree, ".">>}

RangeSuffixes ==
    {<<>>, <<":">>, <<":", "8", "0">>, <<":", "9", "9", "9", "9", "9">>,
     <<":", ArabicIndicThree>>, <<":", "8", "0", ":">>, <<":", "[", "8", "0", "]">>}

RangeInputs ==
    {Net192 \o lo \o <<"-">> \o hi \o suf :
        lo \in BoundTexts, hi \in BoundTexts, suf \in {<<>>, <<":">>}}
    \cup
    {pre \o lo \o <<"-">> \o hi \o suf :
        pre \in LeadingTexts, lo \in SmallTexts, hi \in SmallTexts,
        suf \in RangeSuffixes}

PieceTexts ==
    {<<>>, <<" ">>, <<"a">>, <<" ", "a", "\t">>, <<"a", " ", "b">>,
     <<"1", ".", "1", ".", "1", ".", "1", "-", "3">>,
     <<"1", ".", "1", ".", "1", ".", "0", "/", "3", "1">>,
     <<"2", "5", "6", ".", "1", ".", "1", ".", "1", "-", "3">>}

RECURSIVE CommaJoined(_)
CommaJoined(n) ==
    IF n = 1 THEN PieceTexts
    ELSE {x \o <<",">> \o y : x \in CommaJoined(n - 1), y \in PieceTexts}

CommaInputs == UNION {CommaJoined(n) : n \in 2..MaxPieces}

V4Literals ==
    {Net192 \o <<"0">>, Net192 \o <<"5">>,
     <<"1", "0", ".", "0", ".", "0", ".", "2", "5", "5">>}

V6Literals ==
    {<<"2", "0", "0", "1", ":", "4", "f", "8", ":", "3", ":", "b", "a", ":",
       "2", "e", "0", ":", "8", "1", "f", "f", ":", "f", "e", "2", "2", ":",
       "d", "1", "f", "1">>,
     <<"2", "0", "0", "1", ":", "D", "B", "8", ":", ":", "f", "f", "f", "f">>,
     <<"f", "e", "8", "0", ":", ":">>,
     <<"1", ":", "0", ":", "0", ":", "2", ":", "0", ":", "0", ":", "0", ":", "3">>}

\* Prefix lengths from MaxHostBits host bits down to none, and one too long.
PrefixTexts(bits) ==
    {<<"/">> \o FmtDec(p) : p \in (bits - MaxHostBits)..(bits + 1)}

PortSuffixes ==
    {<<>>, <<":", "[", "1", "2", "3", "4", "]">>, <<":", "[", "8", "0", "]", "]">>,
     <<":", "[", "]">>, <<":", "[", "8", ":", "[", "0", "]">>,
     <<":", "[", "8", "0">>, <<":", "8", "0">>}

CidrInputs ==
    {a \o p \o suf : a \in V4Literals, p \in PrefixTexts(32), suf \in PortSuffixes}
    \cup
    {a \o p \o suf : a \in V6Literals, p \in PrefixTexts(128), suf \in PortSuffixes}

OtherInputs ==
    {<<>>, <<"a", "b", "c">>, <<"n", "o", "t", " ", "a", " ", "v", "a", "l", "i", "d">>,
     <<"a", "b", "c", ":", "[", "8", "0", "]">>, <<"1", ".", "2", ".", "3">>,
     <<"1", ".", "1", ".", "1", ".", "1", "-">>,
     <<"1", ".", "1", ".", "1", ".", "1", "-", "3", "\n">>,
     <<" ", "1", ".", "1", ".", "1", ".", "1", "-", "3">>,
     <<"1", ".", "1", ".", "1", "-", "3">>,
     <<"1", ".", "1", ".", "1", ".", "1", "-", "3", "/", "3", "1">>,
     <<"1", ".", "1", ".", "1", ".", "0", "/", "x">>,
     <<"1", ".", "1", ".", "1", ".", "2", "5", "6", "/", "3", "1">>,
     <<":", "[", "]">>, <<"]">>}

Inputs == RangeInputs \cup CommaInputs \cup CidrInputs \cup OtherInputs

\* One input for every way through the function.
ConcInputs ==
    {<<"a", ",", " ", "b">>,
     Net192 \o <<"1", "-", "2">>,
     Net192 \o <<"5", "-", "1">>,
     Net192 \o <<"1", "-", "2", "5", "6">>,
     Net192 \o <<"0", "/", "3", "1", ":", "[", "8", "0", "]">>,
     <<"a", "b", "c">>}

-----------------------------------------------------------------------------
(* The state machine: every thread runs calls of parse_multiple_targets,   *)
(* one step per branch, loop pass or library call.                         *)

NoIter == IterNew(0, 0)
NoNums == <<>>

Init ==
    /\ pc = [t \in Threads |-> "idle"]
    /\ expression = [t \in Threads |-> <<>>]
    /\ caps = [t \in Threads |-> NoCaps]
    /\ nums = [t \in Threads |-> NoNums]
    /\ port_part = [t \in Threads |-> <<>>]
    /\ cidr_part = [t \in Threads |-> <<>>]
    /\ iter = [t \in Threads |-> NoIter]
    /\ range = [t \in Threads |-> <<>>]
    /\ result = [t \in Threads |-> Pending]
    /\ lazy = "incomplete"
    /\ compiles = 0

\* Line 12: the call.
Call(t, inputs) ==
    /\ pc[t] = "idle"
    /\ \E e \in inputs : expression' = [expression EXCEPT ![t] = e]
    /\ pc' = [pc EXCEPT ![t] = "dispatch"]
    /\ UNCHANGED <<caps, nums, port_part, cidr_part, iter, range, result,
                   lazy, compiles>>

\* Lines 13-19
CommaMode(t) ==
    /\ pc[t] = "dispatch"
    /\ Contains(expression[t], <<",">>)
    /\ result' = [result EXCEPT ![t] = Ok(CommaTargets(expression[t]))]
    /\ pc' = [pc EXCEPT ![t] = "done"]
    /\ UNCHANGED <<expression, caps, nums, port_part, cidr_part, iter, range,
                   lazy, compiles>>

\* Line 20: no comma, the pattern is wanted.
NoComma(t) ==
    /\ pc[t] = "dispatch"
    /\ ~Contains(expression[t], <<",">>)
    /\ pc' = [pc EXCEPT ![t] = "deref"]
    /\ UNCHANGED <<expression, caps, nums, port_part, cidr_part, iter, range,
                   result, lazy, compiles>>

\* A Once whose initialiser may be entered while another thread runs it.
UnguardedMayRun(state) == state # "complete"

\* Once::call_once lets one caller in: the one that finds it incomplete.
OnceMayRun(state) == state = "incomplete"

\* Lines 7-10: the first dereference starts the initialiser.
OnceBegin(t) ==
    /\ pc[t] = "deref"
    /\ OnceMayRun(lazy)
    /\ lazy' = "running"
    /\ pc' = [pc EXCEPT ![t] = "init"]
    /\ UNCHANGED <<expression, caps, nums, port_part, cidr_part, iter, range,
                   result, compiles>>

\* Line 9: Regex::new(..).unwrap() returns and the value is published.
OnceFinish(t) ==
    /\ pc[t] = "init"
    /\ compiles' = compiles + 1
    /\ lazy' = "complete"
    /\ pc' = [pc EXCEPT ![t] = "captures"]
    /\ UNCHANGED <<expression, caps, nums, port_part, cidr_part, iter, range,
                   result>>

\* A dereference of the initialised pattern.  While another thread runs the
\* initialiser the caller blocks: no action is enabled for it.
OnceReady(t) ==
    /\ pc[t] = "deref"
    /\ lazy = "complete"
    /\ pc' = [pc EXCEPT ![t] = "captures"]
    /\ UNCHANGED <<expression, caps, nums, port_part, cidr_part, iter, range,
                   result, lazy, compiles>>

\* Line 20: IPV4_RANGE_PARSER.captures(expression)
RangeMatch(t) ==
    /\ pc[t] = "captures"
    /\ caps' = [caps EXCEPT ![t] = Captures(expression[t])]
    /\ pc' = [pc EXCEPT ![t] = IF Captures(expression[t]).matched
                                THEN "octets" ELSE "port"]
    /\ UNCHANGED <<expression, nums, port_part, cidr_part, iter, range,
                   result, lazy, compiles>>

\* Lines 22-26, every group within u8.
ParseOctets(t) ==
    /\ pc[t] = "octets"
    /\ OctetsOk(caps[t])
    /\ nums' = [nums EXCEPT ![t] = [i \in 1..5 |-> Octets(caps[t])[i].val]]
    /\ pc' = [pc EXCEPT ![t] = "compare"]
    /\ UNCHANGED <<expression, caps, port_part, cidr_part, iter, range,
                   result, lazy, compiles>>

\* Lines 22-26: unwrap() of a failed parse panics and the call unwinds.
OctetPanic(t) ==
    /\ pc[t] = "octets"
    /\ ~OctetsOk(caps[t])
    /\ result' = [result EXCEPT ![t] = Panicked]
    /\ pc' = [pc EXCEPT ![t] = "panicked"]
    /\ UNCHANGED <<expression, caps, nums, port_part, cidr_part, iter, range,
                   lazy, compiles>>

\* Lines 28-33
Descending(t) ==
    /\ pc[t] = "compare"
    /\ nums[t][5] < nums[t][4]
    /\ result' = [result EXCEPT ![t] =
                    Err(DescendingMsg(expression[t], nums[t][4], nums[t][5]))]
    /\ pc' = [pc EXCEPT ![t] = "done"]
    /\ UNCHANGED <<expression, caps, nums, port_part, cidr_part, iter, range,
                   lazy, compiles>>

\* Lines 35-42: port_part, the empty vector and the loop's iterator.
RangeBegin(t) ==
    /\ pc[t] = "compare"
    /\ ~(nums[t][5] < nums[t][4])
    /\ port_part' = [port_part EXCEPT ![t] = RangePortPart(caps[t].port)]
    /\ range' = [range EXCEPT ![t] = <<>>]
    /\ iter' = [iter EXCEPT ![t] = IterNew(nums[t][4], nums[t][5])]
    /\ pc' = [pc EXCEPT ![t] = "loop"]
    /\ UNCHANGED <<expression, caps, nums, cidr_part, result, lazy, compiles>>

\* Lines 42-44: one pass of the loop.
LoopStep(t) ==
    /\ pc[t] = "loop"
    /\ IterNext(iter[t]).some
    /\ range' = [range EXCEPT ![t] =
                    Append(@, RangeTarget(nums[t][1], nums[t][2], nums[t][3],
                                          IterNext(iter[t]).val, port_part[t]))]
    /\ iter' = [iter EXCEPT ![t] = IterNext(iter[t]).it]
    /\ UNCHANGED <<pc, expression, caps, nums, port_part, cidr_part, result,
                   lazy, compiles>>

\* Lines 42, 46: the iterator is spent; return Ok(range).
LoopExit(t) ==
    /\ pc[t] = "loop"
    /\ ~IterNext(iter[t]).some
    /\ result' = [result EXCEPT ![t] = Ok(range[t])]
    /\ pc' = [pc EXCEPT ![t] = "done"]
    /\ UNCHANGED <<expression, caps, nums, port_part, cidr_part, iter, range,
                   lazy, compiles>>

\* Lines 49-63
PortStep(t) ==
    /\ pc[t] = "port"
    /\ cidr_part' = [cidr_part EXCEPT ![t] = PortSplit(expression[t]).cidr]
    /\ port_part' = [port_part EXCEPT ![t] = PortSplit(expression[t]).port_part]
    /\ pc' = [pc EXCEPT ![t] = "cidr"]
    /\ UNCHANGED <<expression, caps, nums, iter, range, result, lazy, compiles>>

\* Lines 66-71
CidrExpand(t) ==
    /\ pc[t] = "cidr"
    /\ IpCidrFromStr(cidr_part[t]).ok
    /\ result' = [result EXCEPT ![t] =
                    Ok(CidrTargets(IpCidrFromStr(cidr_part[t]), port_part[t]))]
    /\ pc' = [pc EXCEPT ![t] = "done"]
    /\ UNCHANGED <<expression, caps, nums, port_part, cidr_part, iter, range,
                   lazy, compiles>>

\* The message of lines 74-77 built from cidr_part.
UnrecognizedOfPart(t) == Err(UnrecognizedMsg(cidr_part[t]))

\* Lines 74-77
Unrecognized(t) == Err(UnrecognizedMsg(expression[t]))

\* Lines 66, 72-77: the parser rejected cidr_part.
CidrReject(t) ==
    /\ pc[t] = "cidr"
    /\ ~IpCidrFromStr(cidr_part[t]).ok
    /\ result' = [result EXCEPT ![t] = Unrecognized(t)]
    /\ pc' = [pc EXCEPT ![t] = "done"]
    /\ UNCHANGED <<expression, caps, nums, port_part, cidr_part, iter, range,
                   lazy, compiles>>

\* The caller took the result; the locals are gone.
Return(t) ==
    /\ pc[t] = "done"
    /\ pc' = [pc EXCEPT ![t] = "idle"]
    /\ expression' = [expression EXCEPT ![t] = <<>>]
    /\ caps' = [caps EXCEPT ![t] = NoCaps]
    /\ nums' = [nums EXCEPT ![t] = NoNums]
    /\ port_part' = [port_part EXCEPT ![t] = <<>>]
    /\ cidr_part' = [cidr_part EXCEPT ![t] = <<>>]
    /\ iter' = [iter EXCEPT ![t] = NoIter]
    /\ range' = [range EXCEPT ![t] = <<>>]
    /\ result' = [result EXCEPT ![t] = Pending]
    /\ UNCHANGED <<lazy, compiles>>

Step(t, inputs) ==
    \/ Call(t, inputs)
    \/ CommaMode(t)
    \/ NoComma(t)
    \/ OnceBegin(t)
    \/ OnceFinish(t)
    \/ OnceReady(t)
    \/ RangeMatch(t)
    \/ ParseOctets(t)
    \/ OctetPanic(t)
    \/ Descending(t)
    \/ RangeBegin(t)
    \/ LoopStep(t)
    \/ LoopExit(t)
    \/ PortStep(t)
    \/ CidrExpand(t)
    \/ CidrReject(t)
    \/ Return(t)

\* One caller, every input.
Next == Step(1, Inputs)

Spec == Init /\ [][Next]_vars

\* Several callers at once.
NextConc == \E t \in Threads : Step(t, ConcInputs)

SpecConc == Init /\ [][NextConc]_vars

-----------------------------------------------------------------------------
(* Vocabulary of the properties: the shape of an expression read off its   *)
(* text, independently of the matcher above.                               *)

Finished(t) == pc[t] \in {"done", "panicked"}
HasComma(e) == \E i \in DOMAIN e : e[i] = ","

DigitText(s) == s # <<>> /\ \A i \in DOMAIN s : IsRegexDigit(s[i])
DecimalText(s) == s # <<>> /\ \A i \in DOMAIN s : IsAsciiDigit(s[i])

\* The number a decimal text denotes.
RECURSIVE Denotes(_)
Denotes(s) ==
    IF s = <<>> THEN 0
    ELSE (Denotes(SubSeq(s, 1, Len(s) - 1)) * 10) + DigitVal(s[Len(s)])

\* e read as  a.b.c.start-stop  followed by rest.
BodyOf(e) == IF Find(e, <<":">>) = 0 THEN e ELSE SubSeq(e, 1, Find(e, <<":">>) - 1)
RestOf(e) == IF Find(e, <<":">>) = 0 THEN <<>> ELSE SubSeq(e, Find(e, <<":">>), Len(e))
Dotted(e) == Split(BodyOf(e), ".")
Dashed(e) == Split(Dotted(e)[4], "-")

\* x is  a.b.c.start-stop  with every group a run of digits.
IsBareRange(x) ==
    /\ Find(x, <<":">>) = 0
    /\ Len(Dotted(x)) = 4
    /\ \A i \in 1..3 : DigitText(Dotted(x)[i])
    /\ Len(Dashed(x)) = 2
    /\ DigitText(Dashed(x)[1]) /\ DigitText(Dashed(x)[2])

\* The same with decimal digits only.
IsDecimalRange(x) ==
    /\ IsBareRange(x)
    /\ \A i \in 1..3 : DecimalText(Dotted(x)[i])
    /\ DecimalText(Dashed(x)[1]) /\ DecimalText(Dashed(x)[2])

\* a.b.c.start-stop  or  a.b.c.start-stop:port, in decimal digits.
IsRangeForm(e) ==
    /\ IsDecimalRange(BodyOf(e))
    /\ RestOf(e) = <<>> \/ DecimalText(Tail(RestOf(e)))

\* The same, and also a colon with no port digits, which the pattern accepts.
IsRangePattern(e) ==
    /\ IsDecimalRange(BodyOf(e))
    /\ RestOf(e) = <<>> \/ RestOf(e) = <<":">> \/ DecimalText(Tail(RestOf(e)))

StartOf(e) == Denotes(Dashed(e)[1])
StopOf(e) == Denotes(Dashed(e)[2])

IsUnrecognized(r, e) ==
    /\ r.kind = "Err"
    /\ Len(r.msg) = Len(e) + 2
    /\ r.msg[1] = "could not parse '"
    /\ SubSeq(r.msg, 2, Len(e) + 1) = e
    /\ r.msg[Len(e) + 2] = "' as a comma separated list of targets or as CIDR"

IsDescending(r, e) ==
    /\ r.kind = "Err"
    /\ r.msg = <<"invalid ip range ">> \o e \o <<", ">>
                  \o FmtDec(StartOf(e)) \o <<" is greater than ">>
                  \o FmtDec(StopOf(e))

-----------------------------------------------------------------------------
\* C1: every call returns Ok or Err; no call ends in a panic, whatever the
\* expression, those with decimal groups above 255 included.
C1_NeverPanics ==
    \A t \in Threads : pc[t] # "panicked" /\ result[t].kind # "Panic"

-----------------------------------------------------------------------------
(* C2: comma mode.                                                         *)

Cuts(e) == {0, Len(e) + 1} \cup {i \in DOMAIN e : e[i] = ","}
PieceStarts(e) == Cuts(e) \ {Len(e) + 1}
PieceEnd(e, lo) == CHOOSE hi \in Cuts(e) : hi > lo /\ \A c \in Cuts(e) : ~(lo < c /\ c < hi)
Solid(e, lo) == {i \in (lo + 1)..(PieceEnd(e, lo) - 1) : ~IsWhitespace(e[i])}
Kept(e) == {lo \in PieceStarts(e) : Solid(e, lo) # {}}
Least(S) == CHOOSE x \in S : \A y \in S : x <= y
Greatest(S) == CHOOSE x \in S : \A y \in S : x >= y
Rank(e, lo) == Cardinality({k \in Kept(e) : k <= lo})

\* C2: for an expression with a comma the call returns Ok and the list is
\* the non-blank pieces between the commas, each from its first to its last
\* non-blank character, in the order of the input; nothing is expanded.
C2_CommaList ==
    \A t \in Threads :
        (pc[t] = "done" /\ HasComma(expression[t])) =>
            /\ result[t].kind = "Ok"
            /\ Len(result[t].list) = Cardinality(Kept(expression[t]))
            /\ \A lo \in Kept(expression[t]) :
                  result[t].list[Rank(expression[t], lo)] =
                      SubSeq(expression[t], Least(Solid(expression[t], lo)),
                             Greatest(Solid(expression[t], lo)))

\* A blank piece was dropped and a piece in range syntax passed through.
C2_Witness ==
    \E t \in Threads :
        /\ pc[t] = "done"
        /\ Len(Split(expression[t], ",")) = 3
        /\ result[t].kind = "Ok"
        /\ Len(result[t].list) = 2
        /\ result[t].list[2] = <<"1", ".", "1", ".", "1", ".", "1", "-", "3">>

-----------------------------------------------------------------------------
\* C3: for a comma-free expression a.b.c.start-stop or a.b.c.start-stop:port
\* with stop >= start the call returns Ok with stop - start + 1 entries,
\* entry i being a.b.c.(start+i) and then :port when a port was given.
C3_RangeExpands ==
    \A t \in Threads :
        (/\ Finished(t)
         /\ ~HasComma(expression[t])
         /\ IsRangeForm(expression[t])
         /\ StopOf(expression[t]) >= StartOf(expression[t])) =>
            /\ result[t].kind = "Ok"
            /\ Len(result[t].list) =
                  StopOf(expression[t]) - StartOf(expression[t]) + 1
            /\ \A i \in DOMAIN result[t].list :
                  result[t].list[i] =
                      FmtDec(Denotes(Dotted(expression[t])[1])) \o <<".">>
                        \o FmtDec(Denotes(Dotted(expression[t])[2])) \o <<".">>
                        \o FmtDec(Denotes(Dotted(expression[t])[3])) \o <<".">>
                        \o FmtDec(StartOf(expression[t]) + i - 1)
                        \o RestOf(expression[t])

\* The same with every group within u8: what the code does when no group
\* overflows.
RangeExpandsWithinU8 ==
    \A t \in Threads :
        (/\ Finished(t)
         /\ ~HasComma(expression[t])
         /\ IsRangeForm(expression[t])
         /\ StopOf(expression[t]) >= StartOf(expression[t])
         /\ \A i \in 1..3 : ParseU8(Dotted(expression[t])[i]).ok
         /\ \A i \in 1..2 : ParseU8(Dashed(expression[t])[i]).ok) =>
            /\ result[t].kind = "Ok"
            /\ Len(result[t].list) =
                  StopOf(expression[t]) - StartOf(expression[t]) + 1
            /\ \A i \in DOMAIN result[t].list :
                  result[t].list[i] =
                      FmtDec(Denotes(Dotted(expression[t])[1])) \o <<".">>
                        \o FmtDec(Denotes(Dotted(expression[t])[2])) \o <<".">>
                        \o FmtDec(Denotes(Dotted(expression[t])[3])) \o <<".">>
                        \o FmtDec(StartOf(expression[t]) + i - 1)
                        \o RestOf(expression[t])

-----------------------------------------------------------------------------
\* C4: for a comma-free expression the pattern accepts with stop < start the
\* call returns the descending-range error, naming the expression, start and
\* stop; it is not the unrecognized error and no list is returned.
C4_DescendingError ==
    \A t \in Threads :
        (/\ Finished(t)
         /\ ~HasComma(expression[t])
         /\ IsRangePattern(expression[t])
         /\ StopOf(expression[t]) < StartOf(expression[t])) =>
            /\ IsDescending(result[t], expression[t])
            /\ ~IsUnrecognized(result[t], expression[t])

\* The same with every group within u8.
DescendingErrorWithinU8 ==
    \A t \in Threads :
        (/\ Finished(t)
         /\ ~HasComma(expression[t])
         /\ IsRangePattern(expression[t])
         /\ StopOf(expression[t]) < StartOf(expression[t])
         /\ \A i \in 1..3 : ParseU8(Dotted(expression[t])[i]).ok
         /\ \A i \in 1..2 : ParseU8(Dashed(expression[t])[i]).ok) =>
            /\ IsDescending(result[t], expression[t])
            /\ ~IsUnrecognized(result[t], expression[t])

-----------------------------------------------------------------------------
(* C5 - C7: CIDR mode.                                                     *)

\* The call went through the CIDR branch and came back.
CidrPath(t) ==
    pc[t] = "done" /\ ~HasComma(expression[t]) /\ ~caps[t].matched

\* cidr_part read as address/prefix.
AddrText(cp) == SubSeq(cp, 1, Find(cp, <<"/">>) - 1)
PrefixText(cp) == SubSeq(cp, Find(cp, <<"/">>) + 1, Len(cp))
FamilyOf(cp) == IF ParseIpv4(AddrText(cp)).ok THEN 4 ELSE 6
LiteralGroups(cp) ==
    IF ParseIpv4(AddrText(cp)).ok
    THEN ParseIpv4(AddrText(cp)).groups ELSE ParseIpv6(AddrText(cp)).groups

\* An address, a slash and a prefix length no longer than the address.
IsCidrLiteral(cp) ==
    /\ Find(cp, <<"/">>) > 0
    /\ ParseIpv4(AddrText(cp)).ok \/ ParseIpv6(AddrText(cp)).ok
    /\ DecimalText(PrefixText(cp)) /\ Len(PrefixText(cp)) <= 3
    /\ Denotes(PrefixText(cp)) <= AddressBits(FamilyOf(cp))

HostBits(cp) == AddressBits(FamilyOf(cp)) - Denotes(PrefixText(cp))

\* The k-th address of the block of cp, for a block that lies within the
\* last group: the literal with its last group rounded down to a multiple
\* of the block size, plus k - 1.
BlockAddress(cp, k) ==
    LET g == LiteralGroups(cp)
        last == g[Len(g)]
    IN  [g EXCEPT ![Len(g)] = (last - (last % Pow2(HostBits(cp)))) + (k - 1)]

\* C5: when cidr_part is a CIDR literal of prefix length p over n address
\* bits, the call returns Ok with 2^(n-p) entries: the addresses of the
\* block, ascending from the network address, each with the port suffix.
C5_CidrBlock ==
    \A t \in Threads :
        (/\ CidrPath(t)
         /\ IsCidrLiteral(cidr_part[t])
         /\ HostBits(cidr_part[t]) <= GroupBits(FamilyOf(cidr_part[t]))) =>
            /\ result[t].kind = "Ok"
            /\ Len(result[t].list) = Pow2(HostBits(cidr_part[t]))
            /\ \A k \in DOMAIN result[t].list :
                  result[t].list[k] =
                      DisplayIp(FamilyOf(cidr_part[t]), BlockAddress(cidr_part[t], k))
                        \o port_part[t]

\* An IPv6 literal with host bits set was expanded into its block of four.
C5_Witness ==
    \E t \in Threads :
        /\ CidrPath(t)
        /\ IsCidrLiteral(cidr_part[t])
        /\ FamilyOf(cidr_part[t]) = 6
        /\ HostBits(cidr_part[t]) = 2
        /\ LiteralGroups(cidr_part[t])[8] % 4 = 1
        /\ result[t].kind = "Ok"
        /\ Len(result[t].list) = 4

HasBracketedPort(e) == Contains(e, <<":", "[">>) /\ EndsWith(e, <<"]">>)

\* The text after the first ":[" of e.
AfterBracket(e) == SubSeq(e, Find(e, <<":", "[">>) + 2, Len(e))

\* The content between that '[' and the trailing ']'.
PortContent(e) == SubSeq(AfterBracket(e), 1, Len(AfterBracket(e)) - 1)

\* The text after the first ":[" up to its last character that is not ']'.
PortWithoutBrackets(e) ==
    LET raw == AfterBracket(e)
        solid == {i \in DOMAIN raw : raw[i] # "]"}
    IN  IF solid = {} THEN <<>> ELSE SubSeq(raw, 1, Greatest(solid))

ClaimedCidrPart(e) ==
    IF HasBracketedPort(e) THEN SubSeq(e, 1, Find(e, <<":", "[">>) - 1) ELSE e

\* The suffix as the claim has it: the brackets stripped, the content kept.
ClaimedSuffix(e) ==
    IF ~HasBracketedPort(e) THEN <<>>
    ELSE IF Contains(ClaimedCidrPart(e), <<":">>)
    THEN <<":", "[">> \o PortContent(e) \o <<"]">>
    ELSE <<":">> \o PortContent(e)

\* The suffix as amended: for IPv4 every trailing ']' is stripped.
AmendedSuffix(e) ==
    IF ~HasBracketedPort(e) THEN <<>>
    ELSE IF Contains(ClaimedCidrPart(e), <<":">>)
    THEN <<":", "[">> \o PortContent(e) \o <<"]">>
    ELSE <<":">> \o PortWithoutBrackets(e)

\* target is the text of an address followed by suffix.
IsAddressWith(target, suffix) ==
    /\ EndsWith(target, suffix)
    /\ LET head == SubSeq(target, 1, Len(target) - Len(suffix))
       IN  ParseIpv4(head).ok \/ ParseIpv6(head).ok

\* In the CIDR mode of thread t, cidr_part is as claimed and suffix is the
\* port suffix of every generated address.
PortSuffixIs(t, suffix) ==
    /\ CidrPath(t) =>
          /\ cidr_part[t] = ClaimedCidrPart(expression[t])
          /\ port_part[t] = suffix
    /\ (CidrPath(t) /\ result[t].kind = "Ok") =>
          \A k \in DOMAIN result[t].list :
              IsAddressWith(result[t].list[k], suffix)

\* C6 as stated: with a bracketed suffix the expression is split at the
\* first ":[", and every address ends in ":[port]" when cidr_part has a
\* colon and else in ":port", port being the content between the '[' and
\* the trailing ']', unchanged; without one nothing is appended.
C6_PortSuffix ==
    \A t \in Threads : PortSuffixIs(t, ClaimedSuffix(expression[t]))

\* C6 as amended: the same, but for a cidr_part without a colon the suffix
\* is ':' and the text after ":[" with every trailing ']' removed.
C6_PortSuffixAmended ==
    \A t \in Threads : PortSuffixIs(t, AmendedSuffix(expression[t]))

\* An IPv4 block was expanded whose port literal itself ended in ']'.
C6_Witness ==
    \E t \in Threads :
        /\ CidrPath(t)
        /\ HasBracketedPort(expression[t])
        /\ ~Contains(cidr_part[t], <<":">>)
        /\ PortContent(expression[t]) # PortWithoutBrackets(expression[t])
        /\ result[t].kind = "Ok"
        /\ Len(result[t].list) > 1

\* C7: when the CIDR parser rejects cidr_part the call returns the
\* unrecognized error, whose message holds the whole expression; and an
\* error a call returns is that one or the descending-range error.
C7_Unrecognized ==
    \A t \in Threads :
        /\ (CidrPath(t) /\ ~IpCidrFromStr(cidr_part[t]).ok) =>
              IsUnrecognized(result[t], expression[t])
        /\ result[t].kind = "Err" =>
              \/ IsUnrecognized(result[t], expression[t])
              \/ IsDescending(result[t], expression[t])

\* A rejected expression whose cidr_part is not the whole expression.
C7_Witness ==
    \E t \in Threads :
        /\ CidrPath(t)
        /\ ~IpCidrFromStr(cidr_part[t]).ok
        /\ cidr_part[t] # expression[t]
        /\ result[t].kind = "Err"

-----------------------------------------------------------------------------
\* C8: under every interleaving the pattern is compiled at most once, a call
\* that uses the pattern finds it initialised, and a call ends with the
\* result the same call has when it runs alone.
C8_ConcurrentCalls ==
    /\ compiles <= 1
    /\ Cardinality({t \in Threads : pc[t] = "init"}) <= 1
    /\ \A t \in Threads :
          /\ pc[t] \in {"captures", "octets", "compare", "loop", "port", "cidr"} =>
                (lazy = "complete" /\ compiles = 1)
          /\ Finished(t) => result[t] = parse_multiple_targets(expression[t])

\* Two calls race on the first use: one runs the initialiser, the other has
\* reached the dereference.
C8_Witness ==
    \E t \in Threads : \E u \in Threads :
        /\ pc[t] = "init"
        /\ pc[u] = "deref"
        /\ compiles = 0

-----------------------------------------------------------------------------
\* C9: the expansion loop ends after stop - start + 1 passes, at most 256;
\* the counter never leaves start..stop, and for 0-255 the list has 256
\* entries and ends with a.b.c.255.
C9_LoopBounded ==
    \A t \in Threads :
        /\ pc[t] = "loop" =>
              /\ nums[t][4] <= nums[t][5] /\ nums[t][5] <= U8Max
              /\ Len(range[t]) <= (nums[t][5] - nums[t][4]) + 1
              /\ Len(range[t]) <= U8Max + 1
              /\ iter[t].start \in nums[t][4]..nums[t][5]
              /\ iter[t].start =
                    nums[t][4] + Len(range[t]) - (IF iter[t].exhausted THEN 1 ELSE 0)
              /\ IterNext(iter[t]).some <=> Len(range[t]) <= nums[t][5] - nums[t][4]
        /\ (pc[t] = "done" /\ caps[t].matched /\ result[t].kind = "Ok") =>
              /\ Len(result[t].list) = (nums[t][5] - nums[t][4]) + 1
              /\ Len(result[t].list) <= U8Max + 1
              /\ result[t].list[Len(result[t].list)] =
                    RangeTarget(nums[t][1], nums[t][2], nums[t][3], nums[t][5],
                                port_part[t])

\* The loop ran from 0 to 255 and returned 256 entries.
C9_Witness ==
    \E t \in Threads :
        /\ pc[t] = "done"
        /\ caps[t].matched
        /\ nums[t][4] = 0 /\ nums[t][5] = U8Max
        /\ Len(result[t].list) = U8Max + 1
        /\ result[t].list[U8Max + 1] = Net192 \o <<"2", "5", "5">>

-----------------------------------------------------------------------------
(* C10: the optional colon and the optional port of the pattern.           *)

ButLast(e) == SubSeq(e, 1, Len(e) - 1)

\* C10: a.b.c.start-stop followed by a lone ':' is taken as a shorthand
\* range with no port and ends as a.b.c.start-stop does, with the same list
\* when that is a list; and in a.b.c.start-stop every digit after the '-'
\* belongs to stop, none to a port.
C10_OptionalColon ==
    \A t \in Threads :
        /\ (/\ pc[t] \in {"octets", "compare", "loop", "done", "panicked"}
            /\ expression[t] # <<>>
            /\ expression[t][Len(expression[t])] = ":"
            /\ IsBareRange(ButLast(expression[t]))) =>
              /\ caps[t].matched
              /\ ~caps[t].port.some
              /\ Finished(t) =>
                    /\ ~IsUnrecognized(result[t], expression[t])
                    /\ result[t].kind = parse_multiple_targets(ButLast(expression[t])).kind
                    /\ result[t].list = parse_multiple_targets(ButLast(expression[t])).list
                    /\ \A k \in DOMAIN result[t].list :
                          ~Contains(result[t].list[k], <<":">>)
        /\ (/\ pc[t] \in {"octets", "compare", "loop", "done", "panicked"}
            /\ IsBareRange(expression[t])) =>
              /\ caps[t].matched
              /\ ~caps[t].port.some
              /\ caps[t].g[5] = Dashed(expression[t])[2]

\* A range with a lone trailing colon was expanded.
C10_Witness ==
    \E t \in Threads :
        /\ pc[t] = "done"
        /\ expression[t] # <<>>
        /\ expression[t][Len(expression[t])] = ":"
        /\ IsBareRange(ButLast(expression[t]))
        /\ result[t].kind = "Ok"
        /\ Len(result[t].list) > 1

=============================================================================
